---- MODULE Spec2Model ----
(***************************************************************************)
(* kodirepo: create_repository (src/kodirepo/__main__.py).                 *)
(*                                                                         *)
(* One run of create_repository: the orchestrating thread loads the prior  *)
(* catalog, creates the target folder, runs one fetch_addon worker per     *)
(* add-on location (threads, or inline with --no-parallel), collects the   *)
(* result slots, merges, sorts and writes addons.xml and its checksum.     *)
(*                                                                         *)
(* Spec       one run, threads at the grain of the fetch steps.            *)
(* SpecModes  the same command run in parallel, then with --no-parallel.   *)
(* SpecFetch  the running workers at the grain of their file operations.   *)
(* SpecRuns   run after run on one target folder.                          *)
(* SpecParse  parse_metadata / parse_repo and AddonVersion on one element. *)
(***************************************************************************)
EXTENDS Integers, Sequences, FiniteSets, TLC

\* Bounds of the model.
NumAddons == 2      \* add-on locations given on the command line
MaxVersion == 2     \* versions are 1..MaxVersion, ordered as the integers
MaxCatalog == 1     \* records in the addons.xml found on disk

\* Add-on ids, in the order Python compares them as strings.
IdOrder == <<"a", "b">>
Ids == {IdOrder[k] : k \in 1..Len(IdOrder)}
Versions == 1..MaxVersion
WorkerIds == 1..NumAddons

\* How fetching one location can end before anything is written for it.
\* "ok": parse_metadata returned an AddonMetadata.
ErrorKinds ==
  {"SourceNotFound", "DescriptorUnreadable", "InvalidAddonId", "MalformedArchive",
   "MalformedVersion", "DescriptorUnparsable", "CloneFailed"}

\* The Python class of the exception each error is raised as.
ExceptionClass(kind) ==
  CASE kind = "SourceNotFound"       -> "RuntimeError"     \* line 308
    [] kind = "DescriptorUnreadable" -> "RuntimeError"     \* lines 129-130
    [] kind = "InvalidAddonId"       -> "RuntimeError"     \* line 147
    [] kind = "MalformedArchive"     -> "RuntimeError"     \* line 262
    [] kind = "WorkerReportMissing"  -> "RuntimeError"     \* line 388
    [] kind = "DuplicateVersion"     -> "RuntimeError"     \* line 401
    [] kind = "MalformedVersion"     -> "ValueError"       \* line 136, semantic_version
    [] kind = "DescriptorUnparsable" -> "ParseError"       \* line 128, ElementTree
    [] kind = "CloneFailed"          -> "GitCommandError"  \* line 193, GitPython
    [] kind = "FileExists"           -> "OSError"          \* lines 204, 231, 271
    [] kind = "CheckoutFailed"       -> "GitCommandError"  \* line 195, GitPython
    [] kind = "ArchiveFailed"        -> "GitCommandError"  \* line 208, GitPython
    [] OTHER                         -> "Exception"

\* None, for each of the shapes that may be None.
NoMetadata == [id |-> "", version |-> 0, root |-> <<"none", 0>>]
NoExc == [kind |-> "", worker |-> 0]

AddonMetadata(id, version, root) == [id |-> id, version |-> version, root |-> root]
WorkerResult(addon_metadata, exc_info) ==
  [addon_metadata |-> addon_metadata, exc_info |-> exc_info]

\* An add-on location, by what fetching it finds. What a location holds is fixed
\* before the run; the model draws it when the location is first looked at.
Sources ==
  [end : {"ok"}, id : Ids, version : Versions]
    \cup [end : ErrorKinds, id : {""}, version : {0}]
NotLooked == [end |-> "", id |-> "", version |-> 0]

\* A file that may not exist.
Absent == [exists |-> FALSE, content |-> <<>>]
File(content) == [exists |-> TRUE, content |-> content]

\* Python's order on the ids: the position in IdOrder ("" sorts first).
IdIndex(id) == IF id \in Ids THEN CHOOSE k \in 1..Len(IdOrder) : IdOrder[k] = id ELSE 0
id_lt(a, b) == IdIndex(a) < IdIndex(b)

\* The order create_repository leaves the catalog in: ascending id, then
\* descending version.
catalog_before(x, y) == id_lt(x.id, y.id) \/ (x.id = y.id /\ x.version > y.version)

\* addons.xml as found on disk: absent, or up to MaxCatalog <addon> elements as an
\* earlier run wrote them (in catalog order, no (id, version) twice).
OldRecords(n) ==
  {r \in [1..n -> [id : Ids, version : Versions, root : {"old"} \X (1..MaxCatalog)]] :
     /\ \A k \in 1..n : r[k].root = <<"old", k>>
     /\ \A k \in 1..(n - 1) : catalog_before(r[k], r[k + 1])}
PriorCatalogs ==
  {Absent} \cup {File(c) : c \in UNION {OldRecords(n) : n \in 0..MaxCatalog}}

VARIABLES
  addon_locations,  \* argument: the sources, in input order (what each one holds)
  no_parallel,      \* argument
  clobber,          \* argument
  info_file,        \* the file at info_path (addons.xml)
  checksum_file,    \* the file at checksum_path (addons.xml.md5)
  target_folder,    \* whether the directory target_folder exists
  dirs,             \* the add-on directories that exist under target_folder
  files,            \* the files under target_folder/<id>/
  pc,               \* where the orchestrating thread is in create_repository
  i,                \* its loop index
  metadata,         \* local: the catalog sequence
  new_metadata,     \* local: the collected records
  thread,           \* per worker: where its thread is in fetch_addon
  result_slot,      \* per worker: the list its WorkerResult is appended to
  result,           \* how create_repository ended
  info_orig,        \* the files at info_path and checksum_path before the run
  first,            \* the outcome of an earlier run on the same inputs
  fetcher,          \* per worker: the locals of its fetch_addon_from_* call
  parse_io          \* a descriptor handed to parse_metadata / parse_repo, and the outcome

vars ==
  <<addon_locations, no_parallel, clobber, info_file, checksum_file, target_folder,
    dirs, files, pc, i, metadata, new_metadata, thread, result_slot, result,
    info_orig, first, fetcher, parse_io>>

aux == <<fetcher, parse_io>>
args == <<no_parallel, clobber, info_orig, first, aux>>
all_args == <<addon_locations, args>>
disk == <<info_file, checksum_file, target_folder, dirs, files>>

Running == [kind |-> "running", worker |-> 0]
Returned == [kind |-> "returned", worker |-> 0]
Raised(kind, worker) == [kind |-> kind, worker |-> worker]
NoRun == [done |-> FALSE, files |-> {}, info |-> Absent, checksum |-> Absent,
          result |-> Running]

\* hashlib.md5 of a file's bytes: the digest stands for the bytes it was taken of.
generate_checksum(bytes) == <<"md5", bytes>>

\* No fetch_addon_from_* call in progress; no descriptor being parsed.
NoFetcher == [strategy |-> "", at |-> "", clone_folder |-> FALSE, digest |-> <<>>,
              exc |-> ""]
NoParse == [fn |-> "", id |-> [present |-> FALSE, chars |-> <<>>], version |-> <<>>,
            pc |-> "", exc |-> "", rendered |-> <<>>]

Init ==
  /\ fetcher = [w \in WorkerIds |-> NoFetcher]
  /\ parse_io = NoParse
  /\ addon_locations = [w \in WorkerIds |-> NotLooked]
  /\ no_parallel \in BOOLEAN
  /\ clobber \in BOOLEAN
  /\ info_file \in PriorCatalogs
  /\ checksum_file = IF info_file.exists
                     THEN File(generate_checksum(info_file.content))
                     ELSE Absent
  /\ target_folder = info_file.exists
  /\ dirs = {}
  /\ files = {}
  /\ pc = "parse_repo"
  /\ i = 1
  /\ metadata = <<>>
  /\ new_metadata = <<>>
  /\ thread = [w \in WorkerIds |-> "new"]
  /\ result_slot = [w \in WorkerIds |-> <<>>]
  /\ result = Running
  /\ info_orig = <<info_file, checksum_file>>
  /\ first = NoRun

----
\* create_repository, before the workers.

\* parse_repo yields one AddonMetadata per element of the catalog on disk.
parse_repo(file) == file.content

LoadCatalog ==
  /\ pc = "parse_repo"
  /\ metadata' = IF info_file.exists THEN parse_repo(info_file) ELSE <<>>
  /\ pc' = "mkdir"
  /\ UNCHANGED <<all_args, disk, i, new_metadata, thread, result_slot, result>>

\* A run that goes on to the workers without creating the target folder.
CreateTarget_no_mkdir ==
  /\ pc = "mkdir"
  /\ pc' = IF no_parallel THEN "run" ELSE "start"
  /\ i' = 1
  /\ UNCHANGED <<all_args, disk, metadata, new_metadata, thread, result_slot, result>>

\* Create the target folder, then the workers (threads not yet started).
CreateTarget ==
  /\ pc = "mkdir"
  /\ target_folder' = TRUE
  /\ pc' = IF no_parallel THEN "run" ELSE "start"
  /\ i' = 1
  /\ UNCHANGED <<all_args, info_file, checksum_file, dirs, files, metadata,
                 new_metadata, thread, result_slot, result>>

----
\* fetch_addon, the body of each worker.

\* The AddonMetadata parse_metadata returns for source w.
parsed(w) ==
  AddonMetadata(addon_locations[w].id, addon_locations[w].version, <<"new", w>>)

\* Paths under target_folder/<id>/ (get_archive_basename, INFO_BASENAME).
archive_path(am) == <<am.id, "zip", am.version>>
checksum_path_of(am) == <<am.id, "zip.md5", am.version>>
metadata_path(am) == <<am.id, "addon.xml", 0>>

\* open(path, 'wb') and write: the file is created or replaced.
write_file(fs, path, data) ==
  {f \in fs : f.path # path} \cup {[path |-> path, data |-> data]}
read_file(fs, path) == (CHOOSE f \in fs : f.path = path).data

\* except RuntimeError (line 310): the exceptions fetch_addon catches.
caught(kind) == ExceptionClass(kind) = "RuntimeError"

\* An exception of `kind` raised inside the try block of fetch_addon in worker w.
\* Caught: the failure is appended to the slot and fetch_addon returns. Not caught:
\* it leaves fetch_addon; a thread dies of it, and under --no-parallel, where run()
\* is called on the orchestrating thread, it leaves create_repository.
RaiseInWorker(w, kind) ==
  /\ thread' = [thread EXCEPT ![w] = "done"]
  /\ IF caught(kind)
     THEN /\ result_slot' = [result_slot EXCEPT
                 ![w] = Append(@, WorkerResult(NoMetadata, Raised(kind, w)))]
          /\ UNCHANGED <<pc, result>>
     ELSE /\ UNCHANGED result_slot
          /\ IF no_parallel
             THEN pc' = "raised" /\ result' = Raised(kind, w)
             ELSE UNCHANGED <<pc, result>>

\* Classify the location, open it and parse its addon.xml (lines 298-308, and in
\* each fetch_addon_from_* everything up to parse_metadata's return, which touches
\* nothing the workers share); then `if not os.path.isdir(addon_target_folder)`.
Fetch(w) ==
  /\ thread[w] = "fetch"
  /\ \E src \in (IF addon_locations[w] = NotLooked THEN Sources
                 ELSE {addon_locations[w]}) :
       /\ addon_locations' = [addon_locations EXCEPT ![w] = src]
       /\ IF src.end = "ok"
          THEN /\ thread' = [thread EXCEPT
                      ![w] = IF src.id \in dirs THEN "archive" ELSE "mkdir"]
               /\ UNCHANGED <<pc, result, result_slot>>
          ELSE RaiseInWorker(w, src.end)
  /\ UNCHANGED <<args, disk, i, metadata, new_metadata>>

\* os.mkdir(addon_target_folder): FileExistsError when it exists by now.
MakeDir(w) ==
  /\ thread[w] = "mkdir"
  /\ IF parsed(w).id \in dirs
     THEN RaiseInWorker(w, "FileExists") /\ UNCHANGED dirs
     ELSE /\ dirs' = dirs \cup {parsed(w).id}
          /\ thread' = [thread EXCEPT ![w] = "archive"]
          /\ UNCHANGED <<pc, result, result_slot>>
  /\ UNCHANGED <<all_args, info_file, checksum_file, target_folder, files, i, metadata,
                 new_metadata>>

\* Write <id>-<version>.zip.
WriteArchive(w) ==
  /\ thread[w] = "archive"
  /\ files' = write_file(files, archive_path(parsed(w)), <<"zip", w>>)
  /\ thread' = [thread EXCEPT ![w] = "checksum"]
  /\ UNCHANGED <<all_args, info_file, checksum_file, target_folder, dirs, pc, i, metadata,
                 new_metadata, result_slot, result>>

\* generate_checksum(archive_path): reads the archive, writes <archive>.md5.
ArchiveChecksum(w) ==
  /\ thread[w] = "checksum"
  /\ files' = write_file(files, checksum_path_of(parsed(w)),
                         generate_checksum(read_file(files, archive_path(parsed(w)))))
  /\ thread' = [thread EXCEPT ![w] = "copy"]
  /\ UNCHANGED <<all_args, info_file, checksum_file, target_folder, dirs, pc, i, metadata,
                 new_metadata, result_slot, result>>

\* Copy the metadata files, return the AddonMetadata, append it to the slot
\* (line 309) and return from fetch_addon.
CopyAndReport(w) ==
  /\ thread[w] = "copy"
  /\ files' = write_file(files, metadata_path(parsed(w)), <<"meta", w>>)
  /\ result_slot' = [result_slot EXCEPT ![w] = Append(@, WorkerResult(parsed(w), NoExc))]
  /\ thread' = [thread EXCEPT ![w] = "done"]
  /\ UNCHANGED <<all_args, info_file, checksum_file, target_folder, dirs, pc, i, metadata,
                 new_metadata, result>>

Worker(w) ==
  \/ Fetch(w)
  \/ MakeDir(w)
  \/ WriteArchive(w)
  \/ ArchiveChecksum(w)
  \/ CopyAndReport(w)

----
\* create_repository, running the workers (lines 373-380).

\* The loop over the workers moves on, or ends and the collection loop is next.
NextWorker(loop) ==
  IF i < NumAddons
  THEN pc' = loop /\ i' = i + 1
  ELSE pc' = "collect" /\ i' = 1

\* --no-parallel: worker.thread.run() for each worker in turn.
RunWorker ==
  /\ pc = "run"
  /\ thread[i] = "new"
  /\ thread' = [thread EXCEPT ![i] = "fetch"]
  /\ pc' = "running"
  /\ UNCHANGED <<all_args, disk, i, metadata, new_metadata, result_slot, result>>

\* run() has returned: on to the next worker.
RunReturned ==
  /\ pc = "running"
  /\ thread[i] = "done"
  /\ NextWorker("run")
  /\ UNCHANGED <<all_args, disk, metadata, new_metadata, thread, result_slot, result>>

\* worker.thread.start() for each worker, then on to the join loop.
StartWorker ==
  /\ pc = "start"
  /\ thread' = [thread EXCEPT ![i] = "fetch"]
  /\ IF i < NumAddons
     THEN i' = i + 1 /\ UNCHANGED pc
     ELSE i' = 1 /\ pc' = "join"
  /\ UNCHANGED <<all_args, disk, metadata, new_metadata, result_slot, result>>

\* A join that returns at once (a timeout of 0, or no join at all).
joined_without_waiting(w) == TRUE

\* Thread.join() returns once the thread has terminated.
joined(w) == thread[w] = "done"

\* worker.thread.join() for each worker.
JoinWorker ==
  /\ pc = "join"
  /\ joined(i)
  /\ NextWorker("join")
  /\ UNCHANGED <<all_args, disk, metadata, new_metadata, thread, result_slot, result>>

----
\* create_repository, collecting the results (lines 382-391).

\* A collection loop that never re-raises a worker's failure.
exc_never_raised(res) == FALSE

\* if result.exc_info is not None
exc_raised(res) == res.exc_info # NoExc

\* An error that is logged and skipped: the run goes on to the merge.
LogAndContinue(kind, worker) ==
  /\ pc' = "merge"
  /\ UNCHANGED result

\* An exception raised by create_repository itself.
RaiseInOrchestrator(kind, worker) ==
  /\ pc' = "raised"
  /\ result' = Raised(kind, worker)

Collect ==
  /\ pc = "collect"
  /\ i <= NumAddons
  /\ IF result_slot[i] = <<>>
     THEN /\ RaiseInOrchestrator("WorkerReportMissing", 0)
          /\ UNCHANGED <<i, new_metadata>>
     ELSE LET res == Head(result_slot[i]) IN
          IF exc_raised(res)
          THEN /\ RaiseInOrchestrator(res.exc_info.kind, res.exc_info.worker)
               /\ UNCHANGED <<i, new_metadata>>
          ELSE /\ new_metadata' = Append(new_metadata, res.addon_metadata)
               /\ i' = i + 1
               /\ UNCHANGED <<pc, result>>
  /\ UNCHANGED <<all_args, disk, metadata, thread, result_slot>>

Collected ==
  /\ pc = "collect"
  /\ i > NumAddons
  /\ pc' = "merge"
  /\ i' = 1
  /\ UNCHANGED <<all_args, disk, metadata, new_metadata, thread, result_slot, result>>

----
\* create_repository, merging (lines 393-404).

\* A comparison of the records themselves, descriptor node included.
same_record(am, m) == am = m

\* lambda m: addon_metadata.id == m.id and addon_metadata.version == m.version
same_version(am, m) == am.id = m.id /\ am.version = m.version

\* A filter that compares the ids only.
id_exists(am, md) ==
  SelectSeq(md, LAMBDA m : am.id = m.id)

\* list(filter(lambda m: ..., metadata))
version_exists(am, md) ==
  SelectSeq(md, LAMBDA m : same_version(am, m))

\* list.remove(x): drop the first element equal to x.
RECURSIVE list_remove(_, _)
list_remove(md, x) ==
  IF md = <<>> THEN <<>>
  ELSE IF Head(md) = x THEN Tail(md)
  ELSE <<Head(md)>> \o list_remove(Tail(md), x)

\* A clobber that appends without removing the old matches.
remove_none(md, olds) == md

\* for old in version_exists: metadata.remove(old)
RECURSIVE remove_all(_, _)
remove_all(md, olds) ==
  IF olds = <<>> THEN md
  ELSE remove_all(list_remove(md, Head(olds)), Tail(olds))

\* A merge that overwrites whatever --no-clobber says.
overwrite_always == TRUE

\* if clobber
overwrite_allowed == clobber

Merge ==
  /\ pc = "merge"
  /\ i <= Len(new_metadata)
  /\ LET am == new_metadata[i]
         olds == version_exists(am, metadata)
     IN IF olds # <<>> /\ ~overwrite_allowed
        THEN /\ RaiseInOrchestrator("DuplicateVersion", 0)
             /\ UNCHANGED <<i, metadata>>
        ELSE /\ metadata' = Append(remove_all(metadata, olds), am)
             /\ i' = i + 1
             /\ UNCHANGED <<pc, result>>
  /\ UNCHANGED <<all_args, disk, new_metadata, thread, result_slot>>

Merged ==
  /\ pc = "merge"
  /\ i > Len(new_metadata)
  /\ pc' = "sort"
  /\ UNCHANGED <<all_args, disk, i, metadata, new_metadata, thread, result_slot, result>>

----
\* create_repository, sorting and writing (lines 406-423).

\* list.sort is stable: an element goes after every element it does not precede.
RECURSIVE insert_by_version_desc(_, _)
insert_by_version_desc(x, s) ==
  IF s = <<>> THEN <<x>>
  ELSE IF x.version > Head(s).version THEN <<x>> \o s
  ELSE <<Head(s)>> \o insert_by_version_desc(x, Tail(s))

RECURSIVE insert_by_id(_, _)
insert_by_id(x, s) ==
  IF s = <<>> THEN <<x>>
  ELSE IF id_lt(x.id, Head(s).id) THEN <<x>> \o s
  ELSE <<Head(s)>> \o insert_by_id(x, Tail(s))

\* metadata.sort(key=lambda m: m.version, reverse=True)
RECURSIVE sort_version_desc(_)
sort_version_desc(s) ==
  IF s = <<>> THEN <<>>
  ELSE insert_by_version_desc(s[Len(s)], sort_version_desc(SubSeq(s, 1, Len(s) - 1)))

\* metadata.sort(key=lambda m: m.id)
RECURSIVE sort_id(_)
sort_id(s) ==
  IF s = <<>> THEN <<>>
  ELSE insert_by_id(s[Len(s)], sort_id(SubSeq(s, 1, Len(s) - 1)))

\* The two sorts in the other order: version becomes the dominant key.
sort_metadata_swapped(md) == sort_version_desc(sort_id(md))

\* Lines 407-408: by descending version, then by id.
sort_metadata(md) == sort_id(sort_version_desc(md))

Sort ==
  /\ pc = "sort"
  /\ metadata' = sort_metadata(metadata)
  /\ pc' = "write"
  /\ UNCHANGED <<all_args, disk, i, new_metadata, thread, result_slot, result>>

\* The <addons> document: each record's descriptor node, in order.
serialize(md) == md

WriteCatalog ==
  /\ pc = "write"
  /\ info_file' = File(serialize(metadata))
  /\ pc' = "checksum"
  /\ UNCHANGED <<all_args, checksum_file, target_folder, dirs, files, i, metadata,
                 new_metadata, thread, result_slot, result>>

CatalogChecksum ==
  /\ pc = "checksum"
  /\ checksum_file' = File(generate_checksum(info_file.content))
  /\ pc' = "done"
  /\ result' = Returned
  /\ UNCHANGED <<all_args, info_file, target_folder, dirs, files, i, metadata,
                 new_metadata, thread, result_slot>>

----
Next ==
  \/ LoadCatalog
  \/ CreateTarget
  \/ RunWorker
  \/ RunReturned
  \/ StartWorker
  \/ JoinWorker
  \/ \E w \in WorkerIds : Worker(w)
  \/ Collect
  \/ Collected
  \/ Merge
  \/ Merged
  \/ Sort
  \/ WriteCatalog
  \/ CatalogChecksum

Spec == Init /\ [][Next]_vars

\* The same command run again on a copy of the disk as it was before the first
\* run, this time with --no-parallel (end-to-end scenario D).
RerunSequential ==
  /\ pc \in {"done", "raised"}
  /\ ~no_parallel
  /\ ~first.done
  /\ first' = [done |-> TRUE, files |-> files, info |-> info_file,
               checksum |-> checksum_file, result |-> result]
  /\ no_parallel' = TRUE
  /\ info_file' = info_orig[1]
  /\ checksum_file' = info_orig[2]
  /\ target_folder' = info_orig[1].exists
  /\ dirs' = {}
  /\ files' = {}
  /\ pc' = "parse_repo"
  /\ i' = 1
  /\ metadata' = <<>>
  /\ new_metadata' = <<>>
  /\ thread' = [w \in WorkerIds |-> "new"]
  /\ result_slot' = [w \in WorkerIds |-> <<>>]
  /\ result' = Running
  /\ UNCHANGED <<addon_locations, clobber, info_orig, aux>>

NextModes == Next \/ RerunSequential

SpecModes == Init /\ [][NextModes]_vars

----
\* The workers of a parallel run at the grain of their file operations: the three
\* fetch_addon_from_* functions (lines 180-292), threads started and not yet joined.

Strategies == {"git", "folder", "zip", "none"}

\* The ids parse_metadata returns (id_rejected lets the empty id through).
FetchIds == Ids \cup {"", "."}

\* How the part of a fetch that touches nothing shared can end, by strategy:
\* classification, clone and checkout, opening the zip, parse_metadata.
FetchOutcomes(strategy) ==
  LET parse_errors == {"DescriptorUnreadable", "DescriptorUnparsable", "MalformedVersion",
                       "InvalidAddonId"}
      errors == CASE strategy = "git" -> {"CloneFailed", "CheckoutFailed"} \cup parse_errors
                  [] strategy = "folder" -> parse_errors
                  [] strategy = "zip" -> {"MalformedArchive"} \cup parse_errors
                  [] OTHER -> {"SourceNotFound"}
  IN [end : errors, id : {""}, version : {0}]
       \cup (IF strategy = "none" THEN {}
             ELSE [end : {"ok"}, id : FetchIds, version : Versions])

\* The directory os.path.join(target_folder, id) names: the target folder itself
\* (".") for the ids "" and ".", the subdirectory <id> otherwise.
folder_of(id) == IF id \in {"", "."} THEN "." ELSE id

\* os.path.isdir(addon_target_folder)
isdir(folder) == folder = "." \/ folder \in dirs

\* Paths: the directory, then the basename (get_archive_basename, INFO_BASENAME).
fetch_archive_path(am) == <<folder_of(am.id), am.id, "zip", am.version>>
fetch_checksum_path(am) == <<folder_of(am.id), am.id, "zip.md5", am.version>>
fetch_metadata_path(am) == <<folder_of(am.id), "", "addon.xml", 0>>

\* The bytes of a file just opened for writing, and of worker w's archive.
Truncated == <<"zip", 0>>
archive_bytes(w) == <<"zip", w>>

\* An order in which the checksum is taken of the archive just opened.
next_at_early_checksum(strategy, at) ==
  CASE at = "mkdir" -> IF strategy = "zip" THEN "copy" ELSE "open"
    [] at = "copy" -> IF strategy = "zip" THEN "open" ELSE "done"
    [] at = "open" -> "cksum_read"
    [] at = "cksum_read" -> "cksum_write"
    [] at = "cksum_write" -> "write"
    [] at = "write" -> IF strategy = "zip" THEN "done" ELSE "copy"

\* The order of the steps after the directory exists: fetch_addon_from_zip copies
\* the metadata files first (lines 272-281), the others last (lines 215, 246).
next_at(strategy, at) ==
  CASE at = "mkdir" -> IF strategy = "zip" THEN "copy" ELSE "open"
    [] at = "copy" -> IF strategy = "zip" THEN "open" ELSE "done"
    [] at = "open" -> "write"
    [] at = "write" -> "cksum_read"
    [] at = "cksum_read" -> "cksum_write"
    [] at = "cksum_write" -> IF strategy = "zip" THEN "done" ELSE "copy"

\* A fetch that removes the clone folder only when it returns normally.
leave_without_rmtree(f) ==
  [f EXCEPT !.at = "done", !.clone_folder = IF f.exc = "" THEN FALSE ELSE @]

\* The fetch ends: `finally: shutil.rmtree(clone_folder)` (lines 219-220).
leave(f) == [f EXCEPT !.at = "done", !.clone_folder = FALSE]

orchestrator ==
  <<no_parallel, clobber, info_orig, first, parse_io, info_file, checksum_file,
    target_folder, i, metadata, new_metadata>>

\* The step is done; after the last one the record is returned and appended to the
\* slot (line 309).
Proceed(w, f) ==
  /\ IF next_at(f.strategy, f.at) = "done"
     THEN /\ fetcher' = [fetcher EXCEPT ![w] = leave(f)]
          /\ result_slot' = [result_slot EXCEPT
                 ![w] = Append(@, WorkerResult(parsed(w), NoExc))]
          /\ thread' = [thread EXCEPT ![w] = "done"]
     ELSE /\ fetcher' = [fetcher EXCEPT ![w] = [f EXCEPT !.at = next_at(f.strategy, f.at)]]
          /\ UNCHANGED <<result_slot, thread>>
  /\ UNCHANGED <<pc, result>>

\* An exception of `kind` leaves the fetch_addon_from_* call.
Abort(w, kind) ==
  /\ fetcher' = [fetcher EXCEPT ![w] = leave([fetcher[w] EXCEPT !.exc = kind])]
  /\ RaiseInWorker(w, kind)

\* fetch_addon classifies the location; then everything up to
\* `if not os.path.isdir(addon_target_folder)`: mkdtemp, clone and checkout (git),
\* opening the archive (zip), parse_metadata.
BeginFetch(w) ==
  /\ thread[w] = "fetch"
  /\ fetcher[w].at = "begin"
  /\ \E strategy \in Strategies : \E src \in FetchOutcomes(strategy) :
       /\ addon_locations' = [addon_locations EXCEPT ![w] = src]
       /\ IF src.end = "ok"
          THEN /\ fetcher' = [fetcher EXCEPT ![w] =
                      [@ EXCEPT !.strategy = strategy,
                                !.clone_folder = (strategy = "git"),
                                !.at = IF isdir(folder_of(src.id))
                                       THEN next_at(strategy, "mkdir") ELSE "mkdir"]]
               /\ UNCHANGED <<thread, result_slot, pc, result>>
          ELSE /\ fetcher' = [fetcher EXCEPT ![w] =
                      leave([@ EXCEPT !.strategy = strategy, !.exc = src.end])]
               /\ RaiseInWorker(w, src.end)
  /\ UNCHANGED <<orchestrator, dirs, files>>

\* os.mkdir(addon_target_folder)
FetchMakeDir(w) ==
  /\ fetcher[w].at = "mkdir"
  /\ IF isdir(folder_of(parsed(w).id))
     THEN Abort(w, "FileExists") /\ UNCHANGED dirs
     ELSE /\ dirs' = dirs \cup {folder_of(parsed(w).id)}
          /\ Proceed(w, fetcher[w])
  /\ UNCHANGED <<orchestrator, addon_locations, files>>

\* open(archive_path, 'wb'), ZipFile(archive_path, 'w'), shutil.copyfile: the file
\* is created, or truncated.
OpenArchive(w) ==
  /\ fetcher[w].at = "open"
  /\ files' = write_file(files, fetch_archive_path(parsed(w)), Truncated)
  /\ Proceed(w, fetcher[w])
  /\ UNCHANGED <<orchestrator, addon_locations, dirs>>

\* The archive is written and closed; cloned.archive (line 208) may fail.
CloseArchive(w) ==
  /\ fetcher[w].at = "write"
  /\ \/ /\ files' = write_file(files, fetch_archive_path(parsed(w)), archive_bytes(w))
        /\ Proceed(w, fetcher[w])
     \/ /\ fetcher[w].strategy = "git"
        /\ Abort(w, "ArchiveFailed")
        /\ UNCHANGED files
  /\ UNCHANGED <<orchestrator, addon_locations, dirs>>

\* generate_checksum, lines 158-162: the digest of the archive as it is now.
ChecksumRead(w) ==
  /\ fetcher[w].at = "cksum_read"
  /\ Proceed(w, [fetcher[w] EXCEPT
                   !.digest = generate_checksum(read_file(files, fetch_archive_path(parsed(w))))])
  /\ UNCHANGED <<orchestrator, addon_locations, dirs, files>>

\* generate_checksum, lines 166-167: the sidecar is written.
ChecksumWrite(w) ==
  /\ fetcher[w].at = "cksum_write"
  /\ files' = write_file(files, fetch_checksum_path(parsed(w)), fetcher[w].digest)
  /\ Proceed(w, fetcher[w])
  /\ UNCHANGED <<orchestrator, addon_locations, dirs>>

\* copy_metadata_files (lines 170-177); lines 272-281 in fetch_addon_from_zip.
CopyMetadata(w) ==
  /\ fetcher[w].at = "copy"
  /\ files' = write_file(files, fetch_metadata_path(parsed(w)), <<"meta", w>>)
  /\ Proceed(w, fetcher[w])
  /\ UNCHANGED <<orchestrator, addon_locations, dirs>>

Fetcher(w) ==
  \/ BeginFetch(w)
  \/ FetchMakeDir(w)
  \/ OpenArchive(w)
  \/ CloseArchive(w)
  \/ ChecksumRead(w)
  \/ ChecksumWrite(w)
  \/ CopyMetadata(w)

\* Every thread has been started (line 378); the orchestrator waits in join.
InitFetch ==
  /\ fetcher = [w \in WorkerIds |-> [NoFetcher EXCEPT !.at = "begin"]]
  /\ thread = [w \in WorkerIds |-> "fetch"]
  /\ pc = "join"
  /\ i = 1
  /\ no_parallel = FALSE
  /\ clobber = FALSE
  /\ parse_io = NoParse
  /\ addon_locations = [w \in WorkerIds |-> NotLooked]
  /\ info_file = Absent
  /\ checksum_file = Absent
  /\ target_folder = TRUE
  /\ dirs = {}
  /\ files = {}
  /\ metadata = <<>>
  /\ new_metadata = <<>>
  /\ result_slot = [w \in WorkerIds |-> <<>>]
  /\ result = Running
  /\ info_orig = <<Absent, Absent>>
  /\ first = NoRun

NextFetch == \E w \in WorkerIds : Fetcher(w)

SpecFetch == InitFetch /\ [][NextFetch]_vars

----
\* create_repository called again and again on the same target folder. The catalog
\* is what the runs hand to each other, so the fetch phase (lines 365-391) is one
\* step here: it ends with the collected records, or with the error it raises.

\* What the collection loop can leave in new_metadata: one record per location.
Batches ==
  {[w \in WorkerIds |-> AddonMetadata(b[w][1], b[w][2], <<"new", w>>)] :
     b \in [WorkerIds -> Ids \X Versions]}

FetchAll ==
  /\ pc = "mkdir"
  /\ target_folder' = TRUE
  /\ thread' = [w \in WorkerIds |-> "done"]
  /\ \/ \E batch \in Batches :
          /\ new_metadata' = batch
          /\ result_slot' = [w \in WorkerIds |-> <<WorkerResult(batch[w], NoExc)>>]
          /\ pc' = "merge"
          /\ i' = 1
          /\ UNCHANGED result
     \/ \E w \in WorkerIds :
          /\ result_slot' = [result_slot EXCEPT
                 ![w] = <<WorkerResult(NoMetadata, Raised("SourceNotFound", w))>>]
          /\ RaiseInOrchestrator("SourceNotFound", w)
          /\ UNCHANGED <<i, new_metadata>>
  /\ UNCHANGED <<all_args, info_file, checksum_file, dirs, files, metadata>>

\* The elements of a catalog file as the next run's parser finds them: the k-th
\* element of the document.
reparsed(file) ==
  IF file.exists
  THEN File([k \in 1..Len(file.content) |-> [file.content[k] EXCEPT !.root = <<"old", k>>]])
  ELSE Absent

\* The command is invoked again, with any --clobber setting.
NewRun ==
  /\ pc \in {"done", "raised"}
  /\ clobber' \in BOOLEAN
  /\ info_file' = reparsed(info_file)
  /\ checksum_file' = IF checksum_file.exists
                      THEN File(generate_checksum(reparsed(info_file).content))
                      ELSE Absent
  /\ info_orig' = <<info_file', checksum_file'>>
  /\ pc' = "parse_repo"
  /\ i' = 1
  /\ metadata' = <<>>
  /\ new_metadata' = <<>>
  /\ thread' = [w \in WorkerIds |-> "new"]
  /\ result_slot' = [w \in WorkerIds |-> <<>>]
  /\ result' = Running
  /\ UNCHANGED <<addon_locations, no_parallel, first, aux, target_folder, dirs, files>>

InitRuns == Init /\ ~no_parallel

NextRuns ==
  \/ LoadCatalog
  \/ FetchAll
  \/ Merge
  \/ Merged
  \/ Sort
  \/ WriteCatalog
  \/ CatalogChecksum
  \/ NewRun

SpecRuns == InitRuns /\ [][NextRuns]_vars

----
\* parse_metadata and parse_repo on one descriptor element (lines 125-149, 330-347),
\* with AddonVersion (lines 110-122). Strings are sequences of characters.

MaxIdLen == 2       \* characters in an id attribute
MaxTail == 3        \* characters of a version string after major.minor.patch

\* The characters the class [a-z0-9._-] holds.
IdClass ==
  {"a", "b", "c", "d", "e", "f", "g", "h", "i", "j", "k", "l", "m", "n", "o", "p", "q",
   "r", "s", "t", "u", "v", "w", "x", "y", "z", "0", "1", "2", "3", "4", "5", "6", "7",
   "8", "9", ".", "_", "-"}

\* The characters the id attributes of the model are written with.
IdChars == {"a", "0", ".", "-", "A"}

\* The characters after the core of the version attributes of the model. The core
\* (major.minor.patch, here always well-formed) is one symbol.
Core == "1.0.0"
TailChars == {"~", "-", "a", "1", ".", "+"}

Strings(chars, n) == UNION {[1..k -> chars] : k \in 0..n}

\* root.get('id'): None when the attribute is missing.
IdAttributes ==
  {[present |-> FALSE, chars |-> <<>>]}
    \cup {[present |-> TRUE, chars |-> c] : c \in Strings(IdChars, MaxIdLen)}
VersionAttributes == {<<Core>> \o t : t \in Strings(TailChars, MaxTail)}

\* str.replace(old, new)
replace(str, old, new) == [k \in 1..Len(str) |-> IF str[k] = old THEN new ELSE str[k]]

\* The position of the first `ch` in str, or Len(str) + 1.
find(str, ch) ==
  IF \E k \in 1..Len(str) : str[k] = ch
  THEN CHOOSE k \in 1..Len(str) : str[k] = ch /\ \A j \in 1..(k - 1) : str[j] # ch
  ELSE Len(str) + 1

\* str.split(sep)
RECURSIVE split(_, _)
split(str, sep) ==
  LET k == find(str, sep)
  IN IF k > Len(str) THEN <<str>>
     ELSE <<SubSeq(str, 1, k - 1)>> \o split(SubSeq(str, k + 1, Len(str)), sep)

\* sep.join(parts)
RECURSIVE join(_, _)
join(parts, sep) ==
  IF parts = <<>> THEN <<>>
  ELSE IF Len(parts) = 1 THEN Head(parts)
  ELSE Head(parts) \o <<sep>> \o join(Tail(parts), sep)

\* semantic_version's version_re on what follows the core:
\*   (?:-([0-9a-zA-Z.-]+))?(?:\+([0-9a-zA-Z.-]+))?$
\* The two groups, each <<>> when absent; matched is whether the regex matches.
version_re(tail) ==
  LET plus == find(tail, "+")
      pre == IF tail # <<>> /\ Head(tail) = "-" THEN SubSeq(tail, 2, plus - 1) ELSE <<>>
      build == SubSeq(tail, plus + 1, Len(tail))
  IN [matched |-> /\ tail # <<>> => Head(tail) \in {"-", "+"}
                  /\ (tail # <<>> /\ Head(tail) = "-") => pre # <<>>
                  /\ plus <= Len(tail) => (build # <<>> /\ find(build, "+") > Len(build)),
      prerelease |-> pre,
      build |-> build]

\* Identifiers are non-empty. (Numeric ones have no leading zero: the only digit
\* of the model is 1.)
valid_identifiers(str) == str = <<>> \/ \A k \in 1..Len(split(str, ".")) : split(str, ".")[k] # <<>>

\* AddonVersion.parse (line 119): '~' becomes '-', then semantic_version parses.
\* ok is FALSE where semantic_version raises ValueError.
AddonVersion_parse(version_string) ==
  LET m == version_re(Tail(replace(version_string, "~", "-")))
  IN [ok |-> m.matched /\ valid_identifiers(m.prerelease) /\ valid_identifiers(m.build),
      core |-> Head(version_string),
      prerelease |-> IF m.prerelease = <<>> THEN <<>> ELSE split(m.prerelease, "."),
      build |-> IF m.build = <<>> THEN <<>> ELSE split(m.build, ".")]

\* AddonVersion.__str__ (line 122): semantic_version renders
\* core[-prerelease][+build], then every '-' becomes '~'.
AddonVersion_str(v) ==
  replace(<<v.core>>
            \o (IF v.prerelease = <<>> THEN <<>> ELSE <<"-">> \o join(v.prerelease, "."))
            \o (IF v.build = <<>> THEN <<>> ELSE <<"+">> \o join(v.build, ".")),
          "-", "~")

\* re.search('[^a-z0-9._-]', id)
search_invalid(chars) == \E k \in 1..Len(chars) : chars[k] \notin IdClass

\* if addon_metadata.id is None or re.search(...): raise RuntimeError('Invalid addon ID')
id_rejected(id) == ~id.present \/ search_invalid(id.chars)

\* Lines 134-149 and 332-347: AddonVersion(...) first, then the id check. The
\* version is rendered where the record is used (get_archive_basename, line 96).
parse_element(fn) ==
  /\ parse_io.fn = fn
  /\ parse_io.pc = "call"
  /\ LET v == AddonVersion_parse(parse_io.version)
     IN parse_io' =
          IF ~v.ok THEN [parse_io EXCEPT !.pc = "raised", !.exc = "MalformedVersion"]
          ELSE IF id_rejected(parse_io.id)
          THEN [parse_io EXCEPT !.pc = "raised", !.exc = "InvalidAddonId"]
          ELSE [parse_io EXCEPT !.pc = "returned", !.rendered = AddonVersion_str(v)]
  /\ UNCHANGED <<addon_locations, no_parallel, clobber, info_orig, first, fetcher,
                 disk, pc, i, metadata, new_metadata, thread, result_slot, result>>

parse_metadata == parse_element("parse_metadata")
parse_repo_element == parse_element("parse_repo")

InitParse ==
  /\ parse_io \in [fn : {"parse_metadata", "parse_repo"}, id : IdAttributes,
                    version : VersionAttributes, pc : {"call"}, exc : {""},
                    rendered : {<<>>}]
  /\ fetcher = [w \in WorkerIds |-> NoFetcher]
  /\ addon_locations = [w \in WorkerIds |-> NotLooked]
  /\ no_parallel = FALSE
  /\ clobber = FALSE
  /\ info_file = Absent
  /\ checksum_file = Absent
  /\ target_folder = FALSE
  /\ dirs = {}
  /\ files = {}
  /\ pc = "parse_repo"
  /\ i = 1
  /\ metadata = <<>>
  /\ new_metadata = <<>>
  /\ thread = [w \in WorkerIds |-> "new"]
  /\ result_slot = [w \in WorkerIds |-> <<>>]
  /\ result = Running
  /\ info_orig = <<Absent, Absent>>
  /\ first = NoRun

NextParse == parse_metadata \/ parse_repo_element

SpecParse == InitParse /\ [][NextParse]_vars

----
\* Properties.

Finished == pc \in {"done", "raised"}
MergePhase == {"merge", "sort", "write", "checksum", "done"}

\* Worker w has finished and its outcome is a failure: a failure in its slot, or
\* no result at all.
failed(w) ==
  /\ thread[w] = "done"
  /\ \/ result_slot[w] = <<>>
     \/ Head(result_slot[w]).exc_info # NoExc

\* The error worker w failed with.
failure_of(w) ==
  IF addon_locations[w].end \in ErrorKinds
  THEN Raised(addon_locations[w].end, w)
  ELSE Raised("FileExists", w)

catalog_unchanged == info_file = info_orig[1] /\ checksum_file = info_orig[2]

\* C1: in parallel mode the orchestrator is in the collection loop or beyond only
\* when every worker thread has terminated.
C1_JoinBarrier ==
  (~no_parallel /\ pc \in ({"collect", "raised"} \cup MergePhase))
    => \A w \in WorkerIds : thread[w] = "done"

\* Collection begins in parallel mode, after workers that wrote files and reported.
C1_Witness ==
  /\ ~no_parallel
  /\ pc = "collect"
  /\ i = 1
  /\ \A w \in WorkerIds : thread[w] = "done" /\ result_slot[w] # <<>>

\* C2: a finished worker's slot holds exactly one WorkerResult, with exactly one of
\* addon_metadata and exc_info populated.
C2_OneResultPerWorker ==
  \A w \in WorkerIds :
    thread[w] = "done" =>
      /\ Len(result_slot[w]) = 1
      /\ (Head(result_slot[w]).addon_metadata # NoMetadata)
           # (Head(result_slot[w]).exc_info # NoExc)

\* C3: every error a worker's fetch ends in is recorded in that worker's slot as a
\* failing WorkerResult carrying it, and does not leave the worker (under
\* --no-parallel it would leave create_repository with siblings not yet run).
C3_ErrorsCaptured ==
  \A w \in WorkerIds :
    (thread[w] = "done" /\ addon_locations[w].end \in ErrorKinds) =>
      /\ result_slot[w] = <<WorkerResult(NoMetadata, failure_of(w))>>
      /\ ~(pc = "raised" /\ \E v \in WorkerIds : thread[v] = "new")

\* C4: create_repository returns or raises only after every worker has been started
\* and has run to completion.
C4_NoCancellation ==
  Finished => \A w \in WorkerIds : thread[w] = "done"

\* C5: when workers failed, the error create_repository raises is the failure of
\* the failed worker that comes first in the input order.
C5_FirstFailureWins ==
  (Finished /\ \E w \in WorkerIds : failed(w)) =>
    LET w0 == CHOOSE w \in WorkerIds :
                failed(w) /\ \A v \in WorkerIds : failed(v) => w <= v
    IN result = failure_of(w0)

\* C6: once a worker's outcome is a failure the merge never runs: the orchestrator
\* is never in the merge or beyond, no new record is in the catalog sequence, and
\* addons.xml and its checksum are as they were before the run.
C6_FailureAbortsMerge ==
  (\E w \in WorkerIds : failed(w)) =>
    /\ pc \notin MergePhase
    /\ \A k \in 1..Len(metadata) : metadata[k].root[1] = "old"
    /\ catalog_unchanged

\* A run with a prior catalog that ended in a worker's failure.
C6_Witness ==
  /\ pc = "raised"
  /\ info_orig[1].exists /\ info_orig[1].content # <<>>
  /\ \E w \in WorkerIds : failed(w)
  /\ \E w \in WorkerIds : ~failed(w) /\ thread[w] = "done"

\* The collected records hold one whose (id, version) is already in the catalog
\* sequence when its turn to be merged comes: in the prior catalog, or merged
\* before it in this run.
duplicate_collected ==
  /\ Len(new_metadata) = NumAddons
  /\ \E j \in 1..NumAddons :
       \/ \E k \in 1..Len(info_orig[1].content) :
            same_version(new_metadata[j], info_orig[1].content[k])
       \/ \E k \in 1..(j - 1) : same_version(new_metadata[j], new_metadata[k])

\* C7: with clobber disabled and a duplicate among the new records, the run never
\* gets past the merge, ends in the duplicate-version error, and addons.xml and its
\* checksum are never written.
C7_NoClobberRefuses ==
  (~clobber /\ duplicate_collected) =>
    /\ pc \in {"collect", "merge", "raised"}
    /\ Finished => result = Raised("DuplicateVersion", 0)
    /\ catalog_unchanged

\* A run refused because of a record of the catalog on disk.
C7_Witness ==
  /\ ~clobber
  /\ pc = "raised"
  /\ result = Raised("DuplicateVersion", 0)
  /\ \E j \in 1..Len(new_metadata) : \E k \in 1..Len(info_orig[1].content) :
       same_version(new_metadata[j], info_orig[1].content[k])
  /\ catalog_unchanged

\* The new records merged so far.
merged_count == IF pc = "merge" THEN i - 1 ELSE Len(new_metadata)

\* The last of the first n new records with the (id, version) of am.
last_merged(am, n) ==
  new_metadata[CHOOSE j \in 1..n :
     /\ same_version(am, new_metadata[j])
     /\ \A k \in (j + 1)..n : ~same_version(am, new_metadata[k])]

C9_CatalogSorted ==
  pc \in {"checksum", "done"} =>
    \A p \in 1..Len(info_file.content) : \A q \in (p + 1)..Len(info_file.content) :
      LET x == info_file.content[p]
          y == info_file.content[q]
      IN /\ ~id_lt(y.id, x.id)
         /\ x.id = y.id => x.version >= y.version

\* A written catalog of three records, whose new records arrived out of order and
\* belong before the record that was on disk.
C9_Witness ==
  /\ pc = "done"
  /\ Len(info_file.content) = 3
  /\ Len(new_metadata) >= 2
  /\ catalog_before(new_metadata[2], new_metadata[1])
  /\ \E k \in 1..Len(info_orig[1].content) :
       catalog_before(new_metadata[1], info_orig[1].content[k])

\* The sources that were fetched have pairwise distinct add-on ids.
distinct_ids ==
  \A v, w \in WorkerIds :
    (v # w /\ addon_locations[v].end = "ok" /\ addon_locations[w].end = "ok")
      => addon_locations[v].id # addon_locations[w].id

\* C10: the sequential run ends as the parallel run on the same inputs did (same
\* files under the target folder, same catalog and checksum, same result), and
\* under --no-parallel a worker is started only when the one before it has finished.
C10_ModesAgree ==
  /\ (first.done /\ Finished /\ distinct_ids) =>
       /\ files = first.files
       /\ info_file = first.info
       /\ checksum_file = first.checksum
       /\ result = first.result
  /\ no_parallel =>
       \A w \in 1..(NumAddons - 1) : thread[w + 1] # "new" => thread[w] = "done"

\* C11: with a well-formed version, parse_metadata and parse_repo accept an id
\* exactly when it is present, non-empty and written with [a-z0-9._-] only, and
\* reject every other id with the invalid-id error.
C11_IdAcceptedIffValid ==
  (parse_io.pc \in {"returned", "raised"} /\ parse_io.exc # "MalformedVersion") =>
    LET id == parse_io.id
        valid == /\ id.present
                 /\ id.chars # <<>>
                 /\ \A k \in 1..Len(id.chars) : id.chars[k] \in IdClass
    IN /\ parse_io.pc = "returned" <=> valid
       /\ parse_io.pc = "raised" => parse_io.exc = "InvalidAddonId"

\* C12: a version string that parses and has a tilde right after the core is
\* rendered back as itself.
C12_TildeRoundTrip ==
  (/\ parse_io.pc = "returned"
   /\ Len(parse_io.version) > 1
   /\ parse_io.version[2] = "~")
    => parse_io.rendered = parse_io.version

\* Worker w's thread is between its start and its end.
running(w) == thread[w] \notin {"new", "done"}

\* Where the orchestrator reads the catalog, creates the target root, writes the
\* catalog and writes its checksum.
CatalogAccess == {"parse_repo", "mkdir", "write", "checksum"}

\* C13 as stated: the orchestrator is at an access to the catalog file or the target
\* root only when every worker has run and been joined.
C13_AccessOnlyAfterJoin ==
  pc \in CatalogAccess => \A w \in WorkerIds : thread[w] = "done"

\* C13, amended: the orchestrator is at an access to the catalog file or the target
\* root only while no worker runs (the read and the creation of the target root
\* before any worker is started, the writes after every worker has ended); and
\* while a worker runs the target root exists and the catalog file and its checksum
\* are as they were before the run.
C13_AccessWhileNoWorkerRuns ==
  /\ pc \in CatalogAccess => \A w \in WorkerIds : ~running(w)
  /\ pc \in {"parse_repo", "mkdir"} => \A w \in WorkerIds : thread[w] = "new"
  /\ pc \in {"write", "checksum"} => \A w \in WorkerIds : thread[w] = "done"
  /\ (\E w \in WorkerIds : running(w)) => (target_folder /\ catalog_unchanged)

\* In parallel mode, on a disk without a target folder, two workers run at once.
C13_Witness ==
  /\ ~no_parallel
  /\ ~info_orig[1].exists
  /\ \A w \in WorkerIds : running(w)
  /\ target_folder

\* C16: in a parallel run, a worker whose source has the add-on id of another
\* worker's source finishes with a success in its slot.
C16_SharedIdBothSucceed ==
  \A v, w \in WorkerIds :
    (/\ ~no_parallel
     /\ v # w
     /\ addon_locations[v].end = "ok" /\ addon_locations[w].end = "ok"
     /\ addon_locations[v].id = addon_locations[w].id
     /\ thread[w] = "done")
      => result_slot[w] = <<WorkerResult(parsed(w), NoExc)>>

\* C18: once a worker has finished with an empty result slot, the orchestrator never
\* is in the merge or beyond, the catalog file and its checksum stay as they were,
\* and when the run has ended it has ended in an error.
C18_MissingReportFatal ==
  (\E w \in WorkerIds : thread[w] = "done" /\ result_slot[w] = <<>>) =>
    /\ pc \notin MergePhase
    /\ catalog_unchanged
    /\ Finished =>
         /\ pc = "raised"
         /\ result.kind \in ErrorKinds \cup {"FileExists", "WorkerReportMissing"}

\* A parallel run over an existing catalog that ended in the missing-report error.
C18_Witness ==
  /\ ~no_parallel
  /\ pc = "raised"
  /\ result = Raised("WorkerReportMissing", 0)
  /\ info_orig[1].exists
  /\ \E w \in WorkerIds : thread[w] = "done" /\ result_slot[w] = <<>>

\* The (id, version) keys of a sequence of records.
keys(md) == {<<md[k].id, md[k].version>> : k \in 1..Len(md)}

distinct_keys(md) ==
  \A p, q \in 1..Len(md) :
    p # q => (md[p].id # md[q].id \/ md[p].version # md[q].version)

\* C19: whatever runs came before, the catalog on disk has pairwise distinct
\* (id, version) keys.
C19_KeysStayDistinct ==
  info_file.exists => distinct_keys(info_file.content)

\* A clobbering run, over a catalog an earlier run wrote, whose batch holds one key
\* twice and a key of that catalog, has written the catalog.
C19_Witness ==
  /\ clobber
  /\ pc = "done"
  /\ Len(info_orig[1].content) > MaxCatalog
  /\ ~distinct_keys(new_metadata)
  /\ keys(new_metadata) \cap keys(info_orig[1].content) # {}

\* Worker w's source has been fetched up to a parsed descriptor.
ok(w) == addon_locations[w].end = "ok"

\* The file at `path`, as a set: empty when there is none.
file_at(fs, path) == {f \in fs : f.path = path}

\* C14: while the fetched sources have pairwise distinct ids, a step of worker w
\* creates or rewrites no file in the add-on directory of another worker, and
\* leaves every other worker's archive and checksum sidecar as they are.
C14_WorkersWriteOwnDir ==
  [][\A w \in WorkerIds :
       (fetcher'[w] # fetcher[w] /\ distinct_ids') =>
         \A v \in WorkerIds \ {w} :
           ok(v) =>
             /\ \A f \in files' \ files : f.path[1] # folder_of(parsed(v).id)
             /\ file_at(files', fetch_archive_path(parsed(v)))
                  = file_at(files, fetch_archive_path(parsed(v)))
             /\ file_at(files', fetch_checksum_path(parsed(v)))
                  = file_at(files, fetch_checksum_path(parsed(v)))]_vars

\* Worker w has ended in success.
succeeded(w) == thread[w] = "done" /\ result_slot[w] = <<WorkerResult(parsed(w), NoExc)>>

\* The digest worker w has computed is that of its complete archive, and once it has
\* ended in success the sidecar next to its archive is the digest of the archive's
\* bytes.
sidecar_is_digest(w) ==
  /\ fetcher[w].at = "cksum_write" => fetcher[w].digest = generate_checksum(archive_bytes(w))
  /\ succeeded(w) =>
       read_file(files, fetch_checksum_path(parsed(w)))
         = generate_checksum(read_file(files, fetch_archive_path(parsed(w))))

\* C15 as stated: for every worker.
C15_SidecarIsDigest ==
  \A w \in WorkerIds : ok(w) => sidecar_is_digest(w)

\* No other source fetched so far has the (id, version) of worker w's.
key_unshared(w) ==
  \A v \in WorkerIds \ {w} : ok(v) => ~same_version(parsed(v), parsed(w))

\* C15, amended: for every worker whose (id, version) no other source of the run
\* has.
C15_SidecarIsDigestOfOwnArchive ==
  \A w \in WorkerIds : (ok(w) /\ key_unshared(w)) => sidecar_is_digest(w)

\* Two workers fetched two versions of one add-on, by different strategies, and both
\* ended in success.
C15_Witness ==
  \E v, w \in WorkerIds :
    /\ succeeded(v) /\ succeeded(w)
    /\ parsed(v).id = parsed(w).id
    /\ parsed(v).version # parsed(w).version
    /\ fetcher[v].strategy = "zip" /\ fetcher[w].strategy = "git"

====
